---- MODULE Spec2Model ----
(***************************************************************************)
(* SmartCI backend: the /analyze handler (analyze_repo) of src/main.py,   *)
(* modelled as the pipeline                                                *)
(*   Idle -> Cloning -> Walking -> AnalyzingPairs -> Aggregating ->        *)
(*   Projecting -> Done,  with Error reachable from every state.           *)
(* The remote repository, git and the per-pair analyzer are the            *)
(* environment: their answers are drawn from small sets.                   *)
(***************************************************************************)
EXTENDS Integers, Sequences, FiniteSets, TLC

(* ---------------------------------------------------------------------- *)
(* Bounds of the model                                                     *)
(* ---------------------------------------------------------------------- *)
\* longest remote history of the specification Spec (all analyzer answers)
MaxHistory == 4
\* longest remote history of the specification SpecWindow (uniform analyzer)
MaxWindowHistory == 32
MaxRequests == 2

(* ---------------------------------------------------------------------- *)
(* Program constants                                                       *)
(* ---------------------------------------------------------------------- *)
CloneDepth == 50
LogCap == 30
PairCap == 20
TestsBase == 1000
TestsStep == 50
TimeBase == 1200
TimeStep == 30
SelectFloor == 50
TestsPerFunction == 15
MantissaBits == 52

(* ---------------------------------------------------------------------- *)
(* Python float arithmetic (IEEE-754 binary64, round to nearest even)      *)
(* as far as the handler uses it: int(c * (a / b)) for integers.           *)
(* ---------------------------------------------------------------------- *)
RECURSIVE Pow2(_)
Pow2(k) == IF k = 0 THEN 1 ELSE 2 * Pow2(k - 1)

Max(x, y) == IF x >= y THEN x ELSE y

Min(x, y) == IF x <= y THEN x ELSE y

\* a/b = (num/den) * 2^exp with 1 <= num/den < 2   (a, b > 0)
RECURSIVE Normalize(_, _, _)
Normalize(a, b, e) ==
    IF a >= 2 * b THEN Normalize(a, 2 * b, e + 1)
    ELSE IF a < b THEN Normalize(2 * a, b, e - 1)
    ELSE [num |-> a, den |-> b, exp |-> e]

\* k further binary digits of r/den (r < den): the remainder left after
\* them and the last digit produced
RECURSIVE Mantissa(_, _, _, _)
Mantissa(r, den, k, bit) ==
    IF k = 0 THEN [rem |-> r, last |-> bit]
    ELSE Mantissa((2 * r) % den, den, k - 1, (2 * r) \div den)

\* the double a / b: its exponent, and whether the quotient was rounded
\* down, by rem/den units of the last place
FloatDiv(a, b) ==
    LET nz == Normalize(a, b, 0)
        t  == Mantissa(nz.num - nz.den, nz.den, MantissaBits, 1)
    IN  [exp  |-> nz.exp,
         den  |-> nz.den,
         rem  |-> t.rem,
         down |-> t.rem > 0 /\ (2 * t.rem < nz.den
                                \/ (2 * t.rem = nz.den /\ t.last = 0))]

\* the E with 2^E < m <= 2^(E+1)   (m >= 1)
RECURSIVE BinadeBelow(_)
BinadeBelow(m) == IF m <= 1 THEN -1 ELSE 1 + BinadeBelow((m + 1) \div 2)

\* x * 2^ex > y * 2^ey
ScaledGreater(x, ex, y, ey) ==
    IF ex >= ey THEN x * Pow2(ex - ey) > y ELSE x > y * Pow2(ey - ex)

\* int(c * (a / b)) for c > 0, a >= 0, b > 0.  When c*a/b is not an integer
\* the rounding errors (below 2^-40) cannot carry the product across an
\* integer, which is at least 1/b away.  When it is an integer m, the product
\* of c and a quotient that was rounded down lies below m, and rounds to a
\* double below m exactly when it is more than half a spacing below m.
FloatMulTrunc(c, a, b) ==
    IF a = 0 THEN 0
    ELSE IF (c * a) % b # 0 THEN (c * a) \div b
    ELSE LET m == (c * a) \div b
             q == FloatDiv(a, b)
         IN  IF q.down /\ ScaledGreater(c * q.rem, q.exp + 1, q.den, BinadeBelow(m))
             THEN m - 1 ELSE m

\* int(c * (a / b)) for a of either sign: floats are symmetric in sign and
\* int() truncates toward zero
FloatMulTruncSigned(c, a, b) ==
    IF a >= 0 THEN FloatMulTrunc(c, a, b) ELSE 0 - FloatMulTrunc(c, 0 - a, b)

(* ---------------------------------------------------------------------- *)
(* Python floats in general: a float is m * 2^e with the integer m below   *)
(* 2^53 + 1, kept as a sequence of limbs, least significant first          *)
(* ---------------------------------------------------------------------- *)
LimbBits == 14
Limb == 16384
SignificandBits == 53
\* binary digits computed of a quotient before it is rounded
QuotientShift == 70

RECURSIVE BigFromInt(_)
BigFromInt(n) == IF n = 0 THEN <<>> ELSE <<n % Limb>> \o BigFromInt(n \div Limb)

RECURSIVE BigToInt(_)
BigToInt(a) == IF a = <<>> THEN 0 ELSE a[1] + Limb * BigToInt(Tail(a))

\* without its leading zero limbs
RECURSIVE BigTrim(_)
BigTrim(a) ==
    IF a # <<>> /\ a[Len(a)] = 0 THEN BigTrim(SubSeq(a, 1, Len(a) - 1)) ELSE a

\* a * c + carry, for c below Limb * 4
RECURSIVE BigMulSmall(_, _, _)
BigMulSmall(a, c, carry) ==
    IF a = <<>> THEN BigFromInt(carry)
    ELSE <<(a[1] * c + carry) % Limb>>
         \o BigMulSmall(Tail(a), c, (a[1] * c + carry) \div Limb)

RECURSIVE BigAdd(_, _, _)
BigAdd(a, b, carry) ==
    IF a = <<>> /\ b = <<>> THEN BigFromInt(carry)
    ELSE LET x == IF a = <<>> THEN 0 ELSE a[1]
             y == IF b = <<>> THEN 0 ELSE b[1]
         IN  <<(x + y + carry) % Limb>>
             \o BigAdd(IF a = <<>> THEN a ELSE Tail(a),
                       IF b = <<>> THEN b ELSE Tail(b),
                       (x + y + carry) \div Limb)

BigAdd1(a) == BigAdd(a, <<1>>, 0)

RECURSIVE BigMul(_, _)
BigMul(a, b) ==
    IF b = <<>> THEN <<>>
    ELSE BigAdd(BigMulSmall(a, b[1], 0), <<0>> \o BigMul(a, Tail(b)), 0)

\* quotient and remainder of the limbs 1..k of a, after remainder r of the
\* limbs above them, by c below Limb
RECURSIVE BigDivStep(_, _, _, _)
BigDivStep(a, c, k, r) ==
    IF k = 0 THEN [quo |-> <<>>, rem |-> r]
    ELSE LET rest == BigDivStep(a, c, k - 1, (r * Limb + a[k]) % c)
         IN  [quo |-> Append(rest.quo, (r * Limb + a[k]) \div c), rem |-> rest.rem]

BigDivSmall(a, c) ==
    LET d == BigDivStep(a, c, Len(a), 0)
    IN  [quo |-> BigTrim(d.quo), rem |-> d.rem]

RECURSIVE BitLen(_)
BitLen(n) == IF n = 0 THEN 0 ELSE 1 + BitLen(n \div 2)

BigBitLen(a) ==
    IF a = <<>> THEN 0 ELSE (Len(a) - 1) * LimbBits + BitLen(a[Len(a)])

RECURSIVE Zeros(_)
Zeros(k) == IF k = 0 THEN <<>> ELSE <<0>> \o Zeros(k - 1)

\* a * 2^k
BigShiftLeft(a, k) ==
    IF a = <<>> THEN a
    ELSE BigTrim(Zeros(k \div LimbBits) \o BigMulSmall(a, Pow2(k % LimbBits), 0))

\* a div 2^k, and whether a binary digit 1 was dropped
BigShiftRight(a, k) ==
    LET whole == Min(k \div LimbBits, Len(a))
        high  == SubSeq(a, whole + 1, Len(a))
        d     == BigDivSmall(high, Pow2(k % LimbBits))
    IN  [quo  |-> d.quo,
         lost |-> d.rem # 0 \/ \E j \in 1..whole : a[j] # 0]

\* n * 2^e (and a little more, when inexact) rounded to the nearest float,
\* to the even one of two nearest
FloatRound(n, e, inexact) ==
    LET s == BigBitLen(n) - SignificandBits
    IN  IF s <= 0 THEN [m |-> n, e |-> e]
        ELSE LET a    == BigShiftRight(n, s - 1)
                 half == a.quo[1] % 2 = 1
                 b    == BigDivSmall(a.quo, 2).quo
                 up   == half /\ (a.lost \/ inexact \/ b[1] % 2 = 1)
             IN  [m |-> IF up THEN BigAdd1(b) ELSE b, e |-> e + s]

\* float(n), n >= 0
FloatOfInt(n) == [m |-> BigFromInt(n), e |-> 0]

\* x * y
FloatMul(x, y) == FloatRound(BigTrim(BigMul(x.m, y.m)), x.e + y.e, FALSE)

\* x / c for an integer c, 0 < c < Limb
FloatDivInt(x, c) ==
    IF x.m = <<>> THEN x
    ELSE LET d == BigDivSmall(BigShiftLeft(x.m, QuotientShift), c)
         IN  FloatRound(d.quo, x.e - QuotientShift, d.rem # 0)

\* int(x), x >= 0
FloatTrunc(x) ==
    IF x.e >= 0 THEN BigToInt(BigShiftLeft(x.m, x.e))
    ELSE BigToInt(BigShiftRight(x.m, 0 - x.e).quo)

(* ---------------------------------------------------------------------- *)
(* The environment: request URLs and answers of the per-pair analyzer      *)
(* ---------------------------------------------------------------------- *)
\* a repo_url as the segments between its '/' characters; <<>> is ""
Urls ==
    { <<>>,
      <<"https:", "", "gitlab.com", "owner", "repo.git">>,
      <<"https:", "", "github.com", "owner", "repo.git">>,
      <<"github.com">> }

\* numbers of changed function names a smart_selection verdict may carry
FuncCounts == {0, 3, 4, 19, 28, 67}

\* what subprocess.run of smart_ci.py gives: a timeout, or an exit status
\* with a standard output that is empty, not JSON, JSON but not an object,
\* or a JSON object with its success, analysis_mode and changed_functions
ProcessResult(kind, rc, out, succ, mode, shape, f) ==
    [kind |-> kind, returncode |-> rc, stdout |-> out, success |-> succ,
     analysis_mode |-> mode, changed_shape |-> shape, changed_functions |-> f]

Timeout       == ProcessResult("timeout", 0, "empty", FALSE, "missing", "absent", 0)
NonZeroExit   == ProcessResult("exit", 1, "object", TRUE, "full_run", "absent", 0)
EmptyOutput   == ProcessResult("exit", 0, "empty", FALSE, "missing", "absent", 0)
Garbage       == ProcessResult("exit", 0, "garbage", FALSE, "missing", "absent", 0)
NonObject     == ProcessResult("exit", 0, "nonobject", FALSE, "missing", "absent", 0)
SuccessFalse  == ProcessResult("exit", 0, "object", FALSE, "full_run", "absent", 0)
MissingMode   == ProcessResult("exit", 0, "object", TRUE, "missing", "absent", 0)
NullFunctions == ProcessResult("exit", 0, "object", TRUE, "smart_selection", "null", 0)
NoChanges     == ProcessResult("exit", 0, "object", TRUE, "no_changes", "absent", 0)
FullRun       == ProcessResult("exit", 0, "object", TRUE, "full_run", "absent", 0)
Unrecognized  == ProcessResult("exit", 0, "object", TRUE, "turbo", "absent", 0)
SmartNoMap    == ProcessResult("exit", 0, "object", TRUE, "smart_selection", "absent", 0)
Smart(f)      == ProcessResult("exit", 0, "object", TRUE, "smart_selection", "mapping", f)

Failures ==
    {Timeout, NonZeroExit, EmptyOutput, Garbage, NonObject, SuccessFalse,
     MissingMode, NullFunctions}

Verdicts == {NoChanges, FullRun, Unrecognized, SmartNoMap} \cup {Smart(f) : f \in FuncCounts}

Outcomes == Failures \cup Verdicts

\* analyzers that answer every pair alike
UniformAnalyzers == {{FullRun}, {NoChanges}, {Timeout}}

(* ---------------------------------------------------------------------- *)
(* Exceptions and their handlers                                           *)
(* ---------------------------------------------------------------------- *)
NoException == [type |-> "none", status_code |-> 0, detail |-> <<>>]

HTTPException(status, detail) ==
    [type |-> "HTTPException", status_code |-> status, detail |-> detail]

Raise(type) == [type |-> type, status_code |-> 0, detail |-> <<type>>]

\* the classes `except Exception` catches
ExceptionSubclasses ==
    {"HTTPException", "TimeoutExpired", "JSONDecodeError", "AttributeError",
     "KeyError", "IndexError", "OSError"}

\* str(e); Starlette prints an HTTPException as "<status_code>: <detail>"
Str(e) ==
    IF e.type = "HTTPException" THEN <<ToString(e.status_code)>> \o e.detail
    ELSE e.detail

\* OuterHandler without the clause for subprocess.TimeoutExpired
OuterHandler_NoTimeoutClause(e) ==
    IF e.type = "none" THEN e
    ELSE IF e.type \in ExceptionSubclasses
         THEN HTTPException(500, Str(e))
    ELSE e

\* the except clauses of the handler's try statement
OuterHandler(e) ==
    IF e.type = "none" THEN e
    ELSE IF e.type = "TimeoutExpired"
         THEN HTTPException(408, <<"Analysis timed out">>)
    ELSE IF e.type \in ExceptionSubclasses
         THEN HTTPException(500, Str(e))
    ELSE e

\* shutil.rmtree(temp_dir, ignore_errors=True): removes the tree when the
\* file system lets it, and reports no error when it does not
RmTree(removable) ==
    [workspace |-> IF removable THEN "removed" ELSE "leftover",
     exc       |-> NoException]

\* Cleanup with a removal that reports its errors and is not guarded
Cleanup_Propagates(removable) ==
    [workspace |-> IF removable THEN "removed" ELSE "leftover",
     exc       |-> IF removable THEN NoException ELSE Raise("OSError")]

\* the finally clause: an exception of rmtree is caught there
Cleanup(removable) ==
    LET r == RmTree(removable)
    IN  [workspace |-> r.workspace,
         exc       |-> IF r.exc.type \in ExceptionSubclasses THEN NoException
                       ELSE r.exc]

\* what leaves the handler: an exception leaving finally replaces the one
\* in flight
Leaves(e, cleanupExc) == IF cleanupExc.type # "none" THEN cleanupExc ELSE e

\* the framework's answer to an exception leaving the handler
ErrorResponse(e) ==
    IF e.type = "HTTPException"
    THEN [status |-> e.status_code, detail |-> e.detail]
    ELSE [status |-> 500, detail |-> <<"Internal Server Error">>]

NoResponse == [status |-> 0, detail |-> <<>>]

(* ---------------------------------------------------------------------- *)
(* Per-pair figures                                                        *)
(* ---------------------------------------------------------------------- *)
\* total_test_count with positions counted from 1
total_test_count_OneBased(pos) == TestsBase + ((pos + 1) * TestsStep)

total_test_count(pos) == TestsBase + (pos * TestsStep)

\* base_time with a tenth of the baseline
base_time_Tenth(pos) == (TimeBase \div 10) + (pos * TimeStep)

\* base_time that ignores the position
base_time_Flat(pos) == TimeBase

base_time(pos) == TimeBase + (pos * TimeStep)

\* selected whose fallback forgets the position
selected_FlatTotal(res, pos) ==
    IF res.analysis_mode = "smart_selection"
    THEN Max(SelectFloor, res.changed_functions * TestsPerFunction)
    ELSE IF res.analysis_mode = "no_changes" THEN 0
    ELSE TestsBase

\* selected without the lower limit of smart_selection
selected_NoFloor(res, pos) ==
    IF res.analysis_mode = "smart_selection"
    THEN res.changed_functions * TestsPerFunction
    ELSE IF res.analysis_mode = "no_changes" THEN 0
    ELSE total_test_count(pos)

\* selected with the lower limit applied to no_changes as well
selected_FloorAlways(res, pos) ==
    IF res.analysis_mode = "smart_selection"
    THEN Max(SelectFloor, res.changed_functions * TestsPerFunction)
    ELSE IF res.analysis_mode = "no_changes" THEN Max(SelectFloor, 0)
    ELSE total_test_count(pos)

selected(res, pos) ==
    IF res.analysis_mode = "smart_selection"
    THEN Max(SelectFloor, res.changed_functions * TestsPerFunction)
    ELSE IF res.analysis_mode = "no_changes" THEN 0
    ELSE total_test_count(pos)

\* int(base_time * ratio) with ratio = selected / total_test_count
smart_time(pos, sel) ==
    IF total_test_count(pos) > 0
    THEN FloatMulTrunc(base_time(pos), sel, total_test_count(pos))
    ELSE 0

NoMetrics ==
    [contributes |-> FALSE, base_time |-> 0, smart_time |-> 0,
     total_test_count |-> 0, selected |-> 0]

PairMetrics(res, pos) ==
    [contributes |-> TRUE,
     base_time |-> base_time(pos),
     smart_time |-> smart_time(pos, selected(res, pos)),
     total_test_count |-> total_test_count(pos),
     selected |-> selected(res, pos)]

\* PairBody without the test of the exit status
PairBody_IgnoresReturncode(res, pos) ==
    IF res.kind = "timeout"
    THEN [exc |-> Raise("TimeoutExpired"), m |-> NoMetrics]
    ELSE IF res.stdout = "empty"
    THEN [exc |-> NoException, m |-> NoMetrics]
    ELSE IF res.stdout = "garbage"
    THEN [exc |-> Raise("JSONDecodeError"), m |-> NoMetrics]
    ELSE IF res.stdout = "nonobject"
    THEN [exc |-> Raise("AttributeError"), m |-> NoMetrics]
    ELSE IF ~res.success
    THEN [exc |-> NoException, m |-> NoMetrics]
    ELSE IF res.analysis_mode = "missing"
    THEN [exc |-> Raise("KeyError"), m |-> NoMetrics]
    ELSE IF res.analysis_mode = "smart_selection" /\ res.changed_shape = "null"
    THEN [exc |-> Raise("AttributeError"), m |-> NoMetrics]
    ELSE [exc |-> NoException, m |-> PairMetrics(res, pos)]

\* the body of the per-pair try statement: the exception it raises, if
\* any, and the figures it adds otherwise
PairBody(res, pos) ==
    IF res.kind = "timeout"
    THEN [exc |-> Raise("TimeoutExpired"), m |-> NoMetrics]
    ELSE IF ~(res.returncode = 0 /\ res.stdout # "empty")
    THEN [exc |-> NoException, m |-> NoMetrics]
    ELSE IF res.stdout = "garbage"
    THEN [exc |-> Raise("JSONDecodeError"), m |-> NoMetrics]
    ELSE IF res.stdout = "nonobject"
    THEN [exc |-> Raise("AttributeError"), m |-> NoMetrics]
    ELSE IF ~res.success
    THEN [exc |-> NoException, m |-> NoMetrics]
    ELSE IF res.analysis_mode = "missing"
    THEN [exc |-> Raise("KeyError"), m |-> NoMetrics]
    ELSE IF res.analysis_mode = "smart_selection" /\ res.changed_shape = "null"
    THEN [exc |-> Raise("AttributeError"), m |-> NoMetrics]
    ELSE [exc |-> NoException, m |-> PairMetrics(res, pos)]

\* PairCatches with the handler of json.JSONDecodeError only
PairCatches_JsonOnly(e) == e.type = "JSONDecodeError"

\* the classes the per-pair handlers catch: json.JSONDecodeError around
\* json.loads, Exception around the whole body; both skip the pair
PairCatches(e) == e.type = "JSONDecodeError" \/ e.type \in ExceptionSubclasses

\* the exception that leaves the per-pair try statement
PairEscapes(e) == IF PairCatches(e) THEN NoException ELSE e

\* NumPairs without the cap
NumPairs_NoCap(cs) == Len(cs) - 1

\* range(min(len(commits) - 1, 20))
NumPairs(cs) == Min(Len(cs) - 1, PairCap)

\* git log --format=%H -n 30 in a clone of depth 50: newest first; commit
\* k of the remote history is named k
GitLog(h) == [k \in 1..Min(Min(h, CloneDepth), LogCap) |-> h - k + 1]

\* HasHostMarker accepting another host
HasHostMarker_AnyHost(url) ==
    \E k \in DOMAIN url : url[k] \in {"github.com", "gitlab.com"}

\* "github.com" in repo_url
HasHostMarker(url) == \E k \in DOMAIN url : url[k] = "github.com"

\* savings_pct = int(((avg_current - avg_smart) / avg_current) * 100)
SavingsPct(cur, smart) == FloatMulTruncSigned(100, cur - smart, cur)

\* the assumptions of the projection: 100 engineers, a salary of 150000,
\* 10 commits a day, 20 working days
SecondsPerMinute == 60
MinutesPerHour == 60
CommitsPerDay == 10
Engineers == 100
WorkDays == 20
Salary == 150000
WeeksPerYear == 52
HoursPerWeek == 40

\* hourly_rate = 150000 / (52 * 40)
hourly_rate == FloatDivInt(FloatOfInt(Salary), WeeksPerYear * HoursPerWeek)

\* int((monthly_savings / 60) * hourly_rate) in floats, for avg_current -
\* avg_smart = size >= 0
Dollars(size) ==
    LET minutes_saved == FloatDivInt(FloatOfInt(size), SecondsPerMinute)
        daily_savings == FloatMul(FloatMul(minutes_saved, FloatOfInt(CommitsPerDay)),
                                  FloatOfInt(Engineers))
        monthly_savings == FloatMul(daily_savings, FloatOfInt(WorkDays))
    IN  FloatTrunc(FloatMul(FloatDivInt(monthly_savings, MinutesPerHour),
                            hourly_rate))

\* the gaps between averages of base times, each at most the base time of
\* the last position
Gaps == 0 .. (TimeBase + (PairCap * TimeStep))

\* Dollars, computed once for each gap
DollarsOf == [size \in Gaps |-> Dollars(size)]

\* dollar_savings: the sign of the gap goes through every float operation,
\* and int() drops the fraction of either sign
dollar_savings(cur, smart) ==
    LET gap == cur - smart
        size == IF gap >= 0 THEN gap ELSE 0 - gap
        amount == IF size \in Gaps THEN DollarsOf[size] ELSE Dollars(size)
    IN  IF gap >= 0 THEN amount ELSE 0 - amount

\* three decimal digits
Pad3(k) ==
    IF k < 10 THEN "00" \o ToString(k)
    ELSE IF k < 100 THEN "0" \o ToString(k)
    ELSE ToString(k)

\* format(n, ","), n >= 0
RECURSIVE Grouped(_)
Grouped(n) ==
    IF n < 1000 THEN ToString(n)
    ELSE Grouped(n \div 1000) \o "," \o Pad3(n % 1000)

\* f"${dollar_savings:,}"
Money(n) == "$" \o (IF n < 0 THEN "-" \o Grouped(0 - n) ELSE Grouped(n))

\* repo_url.rstrip('/').split('/')
RECURSIVE Parts(_)
Parts(url) ==
    IF url # <<>> /\ url[Len(url)] = ""
    THEN Parts(SubSeq(url, 1, Len(url) - 1))
    ELSE url

\* parts[-1].replace('.git', '')
RepoName(segment) == IF segment = "repo.git" THEN "repo" ELSE segment

(* ---------------------------------------------------------------------- *)
(* State                                                                   *)
(* ---------------------------------------------------------------------- *)
VARIABLES
    repo_url,            \* the request
    history,             \* number of commits of the remote repository
    analyzer,            \* the answers smart_ci.py can give in this run
    pc,                  \* state of the pipeline
    errorFrom,           \* the state in which the run failed
    workspace,           \* temp_dir: "none", "exists", "removed", "leftover"
    cleanups,            \* executions of the finally clause
    commits,
    i,
    total_current_time,
    total_smart_time,
    total_tests,
    total_selected,
    analyzed,
    avg_current,
    avg_smart,
    savings_pct,
    avg_tests,
    avg_selected,
    submitted,           \* the (head, base) pairs handed to smart_ci.py
    outcomes,            \* what smart_ci.py answered, per position
    metrics,             \* what each position added to the sums
    raised,              \* the exception raised by the handler's body
    response,            \* what the caller receives
    requests,            \* the other requests the server is handling
    tmp                  \* the directories that exist under the temp root

accumulators ==
    <<total_current_time, total_smart_time, total_tests, total_selected, analyzed>>

averages == <<avg_current, avg_smart, savings_pct, avg_tests, avg_selected>>

journal == <<submitted, outcomes, metrics>>

\* what a step of the handler never writes: its input, the remote
\* repository, smart_ci.py, and the other requests and their directories
environment == <<repo_url, history, analyzer, requests, tmp>>

\* the handler's own variables
handler ==
    <<repo_url, history, analyzer, pc, errorFrom, workspace, cleanups, commits,
      i, total_current_time, total_smart_time, total_tests, total_selected,
      analyzed, avg_current, avg_smart, savings_pct, avg_tests, avg_selected,
      submitted, outcomes, metrics, raised, response>>

vars ==
    <<repo_url, history, analyzer, pc, errorFrom, workspace, cleanups, commits,
      i, total_current_time, total_smart_time, total_tests, total_selected,
      analyzed, avg_current, avg_smart, savings_pct, avg_tests, avg_selected,
      submitted, outcomes, metrics, raised, response, requests, tmp>>

Frame(url, h, a) ==
    /\ repo_url = url
    /\ history = h
    /\ analyzer = a
    /\ pc = "Idle"
    /\ errorFrom = "none"
    /\ workspace = "none"
    /\ cleanups = 0
    /\ commits = <<>>
    /\ i = 0
    /\ total_current_time = 0
    /\ total_smart_time = 0
    /\ total_tests = 0
    /\ total_selected = 0
    /\ analyzed = 0
    /\ avg_current = 0
    /\ avg_smart = 0
    /\ savings_pct = 0
    /\ avg_tests = 0
    /\ avg_selected = 0
    /\ submitted = <<>>
    /\ outcomes = <<>>
    /\ metrics = <<>>
    /\ raised = NoException
    /\ response = NoResponse

\* one request, nothing else on the server
Idle(url, h, a) ==
    /\ Frame(url, h, a)
    /\ requests = <<>>
    /\ tmp = {}

Init == \E url \in Urls, h \in 0..MaxHistory : Idle(url, h, Outcomes)

InitWindow ==
    \E url \in Urls, h \in 0..MaxWindowHistory, a \in UniformAnalyzers :
        Idle(url, h, a)

(* ---------------------------------------------------------------------- *)
(* Steps of analyze_repo                                                   *)
(* ---------------------------------------------------------------------- *)
\* an exception raised inside the try statement: the except clauses, then
\* the finally clause, then the framework's answer
Fail(e, removable) ==
    LET c == Cleanup(removable)
    IN  /\ raised' = e
        /\ workspace' = c.workspace
        /\ cleanups' = cleanups + 1
        /\ response' = ErrorResponse(Leaves(OuterHandler(e), c.exc))
        /\ errorFrom' = pc
        /\ pc' = "Error"

\* an exception raised before the try statement
Reject(e) ==
    /\ raised' = e
    /\ response' = ErrorResponse(e)
    /\ errorFrom' = pc
    /\ pc' = "Error"
    /\ UNCHANGED <<workspace, cleanups>>

\* validation of the URL, owner and repository name, tempfile.mkdtemp
Validate ==
    /\ pc = "Idle"
    /\ IF repo_url = <<>> \/ ~HasHostMarker(repo_url)
       THEN Reject(HTTPException(400, <<"Invalid GitHub URL">>))
       ELSE IF Len(Parts(repo_url)) < 2
       THEN Reject(Raise("IndexError"))
       ELSE /\ workspace' = "exists"
            /\ pc' = "Cloning"
            /\ UNCHANGED <<raised, response, errorFrom, cleanups>>
    /\ UNCHANGED <<environment, commits, i, accumulators, averages, journal>>

\* git clone --depth 50, timeout 120
Clone ==
    /\ pc = "Cloning"
    /\ \E result \in {"ok", "failed", "timeout"}, removable \in BOOLEAN :
          IF result = "timeout" THEN Fail(Raise("TimeoutExpired"), removable)
          ELSE IF result = "failed"
          THEN Fail(HTTPException(400, <<"Failed to clone repository">>), removable)
          ELSE /\ pc' = "Walking"
               /\ UNCHANGED <<raised, response, errorFrom, workspace, cleanups>>
    /\ UNCHANGED <<environment, commits, i, accumulators, averages, journal>>

\* git log -n 30, timeout 10, and the check of the number of commits
Walk ==
    /\ pc = "Walking"
    /\ \E result \in {"ok", "timeout"}, removable \in BOOLEAN :
          IF result = "timeout"
          THEN /\ Fail(Raise("TimeoutExpired"), removable)
               /\ UNCHANGED commits
          ELSE /\ commits' = GitLog(history)
               /\ IF Len(GitLog(history)) < 2
                  THEN Fail(HTTPException(400,
                              <<"Repository must have at least 2 commits">>),
                            removable)
                  ELSE /\ pc' = "AnalyzingPairs"
                       /\ UNCHANGED <<raised, response, errorFrom, workspace,
                                      cleanups>>
    /\ UNCHANGED <<environment, i, accumulators, averages, journal>>

\* AnalyzePair submitting a skipped pair a second time
AnalyzePair_Again ==
    /\ pc = "AnalyzingPairs"
    /\ i < NumPairs(commits)
    /\ \E res \in analyzer, removable \in BOOLEAN :
          LET body == PairBody(res, i)
              esc  == PairEscapes(body.exc)
              m    == IF body.exc.type = "none" THEN body.m ELSE NoMetrics
              next == IF m.contributes \/ Len(submitted) > i THEN i + 1 ELSE i
          IN  /\ submitted' = Append(submitted,
                                 [head |-> commits[i + 1], base |-> commits[i + 2]])
              /\ outcomes' = Append(outcomes, res)
              /\ metrics' = Append(metrics, m)
              /\ IF esc.type = "none"
                 THEN /\ total_current_time' = total_current_time + m.base_time
                      /\ total_smart_time' = total_smart_time + m.smart_time
                      /\ total_tests' = total_tests + m.total_test_count
                      /\ total_selected' = total_selected + m.selected
                      /\ analyzed' = analyzed + (IF m.contributes THEN 1 ELSE 0)
                      /\ i' = next
                      /\ pc' = IF next < NumPairs(commits) THEN "AnalyzingPairs"
                               ELSE "Aggregating"
                      /\ UNCHANGED <<raised, response, errorFrom, workspace,
                                     cleanups>>
                 ELSE /\ Fail(esc, removable)
                      /\ UNCHANGED <<i, accumulators>>
    /\ UNCHANGED <<environment, commits, averages>>

\* one turn of the loop over the pairs
AnalyzePair ==
    /\ pc = "AnalyzingPairs"
    /\ i < NumPairs(commits)
    /\ \E res \in analyzer, removable \in BOOLEAN :
          LET body == PairBody(res, i)
              esc  == PairEscapes(body.exc)
              m    == IF body.exc.type = "none" THEN body.m ELSE NoMetrics
          IN  /\ submitted' = Append(submitted,
                                 [head |-> commits[i + 1], base |-> commits[i + 2]])
              /\ outcomes' = Append(outcomes, res)
              /\ metrics' = Append(metrics, m)
              /\ IF esc.type = "none"
                 THEN /\ total_current_time' = total_current_time + m.base_time
                      /\ total_smart_time' = total_smart_time + m.smart_time
                      /\ total_tests' = total_tests + m.total_test_count
                      /\ total_selected' = total_selected + m.selected
                      /\ analyzed' = analyzed + (IF m.contributes THEN 1 ELSE 0)
                      /\ i' = i + 1
                      /\ pc' = IF i + 1 < NumPairs(commits) THEN "AnalyzingPairs"
                               ELSE "Aggregating"
                      /\ UNCHANGED <<raised, response, errorFrom, workspace,
                                     cleanups>>
                 ELSE /\ Fail(esc, removable)
                      /\ UNCHANGED <<i, accumulators>>
    /\ UNCHANGED <<environment, commits, averages>>

\* the check of analyzed and the averages
Aggregate ==
    /\ pc = "Aggregating"
    /\ \E removable \in BOOLEAN :
          IF analyzed = 0
          THEN /\ Fail(HTTPException(400, <<"No commits could be analyzed">>),
                       removable)
               /\ UNCHANGED averages
          ELSE /\ avg_current' = total_current_time \div analyzed
               /\ avg_smart' = total_smart_time \div analyzed
               /\ savings_pct' = SavingsPct(total_current_time \div analyzed,
                                            total_smart_time \div analyzed)
               /\ avg_tests' = total_tests \div analyzed
               /\ avg_selected' = total_selected \div analyzed
               /\ pc' = "Projecting"
               /\ UNCHANGED <<raised, response, errorFrom, workspace, cleanups>>
    /\ UNCHANGED <<environment, commits, i, accumulators, journal>>

\* the AnalyzeResponse
AnalyzeResponse ==
    [status |-> 200,
     detail |-> <<>>,
     success |-> TRUE,
     repo_name |-> RepoName(Parts(repo_url)[Len(Parts(repo_url))]),
     current_time |-> avg_current,
     smart_time |-> avg_smart,
     savings_percent |-> savings_pct,
     commits_analyzed |-> analyzed,
     tests_total |-> avg_tests,
     tests_avg_selected |-> avg_selected,
     monthly_savings |-> Money(dollar_savings(avg_current, avg_smart))]

\* the return of the response, through the finally clause
Project ==
    /\ pc = "Projecting"
    /\ \E removable \in BOOLEAN :
          LET c == Cleanup(removable)
          IN  /\ workspace' = c.workspace
              /\ cleanups' = cleanups + 1
              /\ response' = IF c.exc.type = "none" THEN AnalyzeResponse
                             ELSE ErrorResponse(c.exc)
              /\ pc' = IF c.exc.type = "none" THEN "Done" ELSE "Error"
              /\ errorFrom' = IF c.exc.type = "none" THEN errorFrom ELSE pc
    /\ UNCHANGED <<environment, commits, i, accumulators, averages, journal,
                   raised>>

Next == Validate \/ Clone \/ Walk \/ AnalyzePair \/ Aggregate \/ Project

Spec == Init /\ [][Next]_vars

SpecWindow == InitWindow /\ [][Next]_vars

\* short histories with every answer, and long histories with uniform answers
SpecAll == (Init \/ InitWindow) /\ [][Next]_vars

(* ---------------------------------------------------------------------- *)
(* Several requests in flight: each has its own locals, all share the     *)
(* temp root                                                               *)
(* ---------------------------------------------------------------------- *)
DirNames == 1 .. MaxRequests

RequestUrls == {<<>>, <<"https:", "", "github.com", "owner", "repo.git">>}

RequestHistories == {2}

RequestAnalyzer == {FullRun, NoChanges, Timeout}

\* the locals of a request that has just arrived
Arrived(url, h) ==
    [pc |-> "Idle", repo_url |-> url, history |-> h,
     temp_dir |-> 0, workspace |-> "none", commits |-> <<>>, i |-> 0,
     total_current_time |-> 0, total_smart_time |-> 0, total_tests |-> 0,
     total_selected |-> 0, analyzed |-> 0,
     avg_current |-> 0, avg_smart |-> 0, savings_pct |-> 0, avg_tests |-> 0,
     avg_selected |-> 0,
     clone |-> "none", log |-> "none", outcomes |-> <<>>,
     response |-> NoResponse]

InitConcurrent ==
    /\ Frame(<<>>, 0, {})
    /\ tmp = {}
    /\ requests \in [1 .. MaxRequests ->
                        {Arrived(url, h) : url \in RequestUrls, h \in RequestHistories}]

\* Mkdtemp that may return a name in use
Mkdtemp_Reuses(existing) == DirNames

\* tempfile.mkdtemp(): the names it can return, none of which exists
Mkdtemp(existing) == DirNames \ existing

\* shutil.rmtree(temp_dir, ignore_errors=True) on the shared temp root
RmTreeOf(existing, dir, removable) ==
    IF removable THEN existing \ {dir} ELSE existing

\* the locals after an exception raised inside the try statement
Failed(req, e, removable) ==
    LET c == Cleanup(removable)
    IN  [req EXCEPT !.pc = "Error",
                    !.workspace = c.workspace,
                    !.response = ErrorResponse(Leaves(OuterHandler(e), c.exc))]

\* the locals after an exception raised before the try statement
Rejected(req, e) ==
    [req EXCEPT !.pc = "Error", !.response = ErrorResponse(e)]

\* the AnalyzeResponse built from the locals of a request
ResponseOf(req) ==
    [status |-> 200,
     detail |-> <<>>,
     success |-> TRUE,
     repo_name |-> RepoName(Parts(req.repo_url)[Len(Parts(req.repo_url))]),
     current_time |-> req.avg_current,
     smart_time |-> req.avg_smart,
     savings_percent |-> req.savings_pct,
     commits_analyzed |-> req.analyzed,
     tests_total |-> req.avg_tests,
     tests_avg_selected |-> req.avg_selected,
     monthly_savings |-> Money(dollar_savings(req.avg_current, req.avg_smart))]

\* a step of request r: its locals become new, the temp root becomes dirs
Step(r, new, dirs) ==
    /\ requests' = [requests EXCEPT ![r] = new]
    /\ tmp' = dirs
    /\ UNCHANGED handler

ValidateOf(r) ==
    LET req == requests[r]
    IN  /\ req.pc = "Idle"
        /\ IF req.repo_url = <<>> \/ ~HasHostMarker(req.repo_url)
           THEN Step(r, Rejected(req, HTTPException(400, <<"Invalid GitHub URL">>)),
                     tmp)
           ELSE IF Len(Parts(req.repo_url)) < 2
           THEN Step(r, Rejected(req, Raise("IndexError")), tmp)
           ELSE \E dir \in Mkdtemp(tmp) :
                   Step(r, [req EXCEPT !.temp_dir = dir, !.workspace = "exists",
                                       !.pc = "Cloning"],
                        tmp \cup {dir})

CloneOf(r) ==
    LET req == requests[r]
    IN  /\ req.pc = "Cloning"
        /\ \E result \in {"ok", "failed", "timeout"}, removable \in BOOLEAN :
              LET got == [req EXCEPT !.clone = result]
              IN  IF result = "timeout"
                  THEN Step(r, Failed(got, Raise("TimeoutExpired"), removable),
                            RmTreeOf(tmp, req.temp_dir, removable))
                  ELSE IF result = "failed"
                  THEN Step(r, Failed(got, HTTPException(400,
                                        <<"Failed to clone repository">>), removable),
                            RmTreeOf(tmp, req.temp_dir, removable))
                  ELSE Step(r, [got EXCEPT !.pc = "Walking"], tmp)

WalkOf(r) ==
    LET req == requests[r]
    IN  /\ req.pc = "Walking"
        /\ \E result \in {"ok", "timeout"}, removable \in BOOLEAN :
              LET got == [req EXCEPT !.log = result]
                  listed == [got EXCEPT !.commits = GitLog(req.history)]
              IN  IF result = "timeout"
                  THEN Step(r, Failed(got, Raise("TimeoutExpired"), removable),
                            RmTreeOf(tmp, req.temp_dir, removable))
                  ELSE IF Len(GitLog(req.history)) < 2
                  THEN Step(r, Failed(listed, HTTPException(400,
                                        <<"Repository must have at least 2 commits">>),
                                      removable),
                            RmTreeOf(tmp, req.temp_dir, removable))
                  ELSE Step(r, [listed EXCEPT !.pc = "AnalyzingPairs"], tmp)

AnalyzePairOf(r) ==
    LET req == requests[r]
    IN  /\ req.pc = "AnalyzingPairs"
        /\ req.i < NumPairs(req.commits)
        /\ \E res \in RequestAnalyzer, removable \in BOOLEAN :
              LET body == PairBody(res, req.i)
                  esc  == PairEscapes(body.exc)
                  m    == IF body.exc.type = "none" THEN body.m ELSE NoMetrics
                  got  == [req EXCEPT !.outcomes = Append(req.outcomes, res)]
              IN  IF esc.type = "none"
                  THEN Step(r,
                            [got EXCEPT
                               !.total_current_time = req.total_current_time + m.base_time,
                               !.total_smart_time = req.total_smart_time + m.smart_time,
                               !.total_tests = req.total_tests + m.total_test_count,
                               !.total_selected = req.total_selected + m.selected,
                               !.analyzed = req.analyzed + (IF m.contributes THEN 1 ELSE 0),
                               !.i = req.i + 1,
                               !.pc = IF req.i + 1 < NumPairs(req.commits)
                                      THEN "AnalyzingPairs" ELSE "Aggregating"],
                            tmp)
                  ELSE Step(r, Failed(got, esc, removable),
                            RmTreeOf(tmp, req.temp_dir, removable))

AggregateOf(r) ==
    LET req == requests[r]
    IN  /\ req.pc = "Aggregating"
        /\ \E removable \in BOOLEAN :
              IF req.analyzed = 0
              THEN Step(r, Failed(req, HTTPException(400,
                                    <<"No commits could be analyzed">>), removable),
                        RmTreeOf(tmp, req.temp_dir, removable))
              ELSE Step(r,
                        [req EXCEPT
                           !.avg_current = req.total_current_time \div req.analyzed,
                           !.avg_smart = req.total_smart_time \div req.analyzed,
                           !.savings_pct =
                               SavingsPct(req.total_current_time \div req.analyzed,
                                          req.total_smart_time \div req.analyzed),
                           !.avg_tests = req.total_tests \div req.analyzed,
                           !.avg_selected = req.total_selected \div req.analyzed,
                           !.pc = "Projecting"],
                        tmp)

ProjectOf(r) ==
    LET req == requests[r]
    IN  /\ req.pc = "Projecting"
        /\ \E removable \in BOOLEAN :
              LET c == Cleanup(removable)
              IN  Step(r,
                       [req EXCEPT
                          !.workspace = c.workspace,
                          !.response = IF c.exc.type = "none" THEN ResponseOf(req)
                                       ELSE ErrorResponse(c.exc),
                          !.pc = IF c.exc.type = "none" THEN "Done" ELSE "Error"],
                       RmTreeOf(tmp, req.temp_dir, removable))

NextConcurrent ==
    \E r \in DOMAIN requests :
        \/ ValidateOf(r)
        \/ CloneOf(r)
        \/ WalkOf(r)
        \/ AnalyzePairOf(r)
        \/ AggregateOf(r)
        \/ ProjectOf(r)

SpecConcurrent == InitConcurrent /\ [][NextConcurrent]_vars

(* ---------------------------------------------------------------------- *)
(* Properties                                                              *)
(* ---------------------------------------------------------------------- *)
Terminal == pc \in {"Done", "Error"}

\* a structurally valid answer of the analyzer with success == true
IsValidVerdict(res) ==
    /\ res.kind = "exit"
    /\ res.returncode = 0
    /\ res.stdout = "object"
    /\ res.success
    /\ res.analysis_mode # "missing"
    /\ res.changed_shape # "null"

NoPairsAnalyzed == HTTPException(400, <<"No commits could be analyzed">>)

\* C1: a run that ends because the clone failed, because fewer than 2
\* commits were retrieved or because no pair was analyzed surfaces a client
\* error (4xx) carrying the diagnostic, never a server error.
C1_ClientErrorSurfaced ==
    (/\ pc = "Error"
     /\ errorFrom \in {"Cloning", "Walking", "Aggregating"}
     /\ raised.type = "HTTPException")
    => (response.status \in 400..499 /\ response.detail = raised.detail)

\* C2: whatever the analyzer answers for a pair, the step at position i
\* never enters Error and advances to position i + 1, or to Aggregating
\* after the last position.
C2_PairFailureIsolated ==
    [][pc = "AnalyzingPairs"
       => /\ pc' \in {"AnalyzingPairs", "Aggregating"}
          /\ i' = i + 1
          /\ Len(outcomes') = i + 1
          /\ (pc' = "Aggregating") <=> (i + 1 = Min(Len(commits) - 1, 20))]_vars

C2_Witness ==
    /\ pc = "Aggregating"
    /\ outcomes = <<Timeout, Garbage, NonObject>>

\* C3: after a successful clone and at least 2 commits the run ends with
\* NoPairsAnalyzed exactly when no pair gave a valid verdict with
\* success == true; one such pair is enough for the run to end in Done with
\* a success result.
C3_NoPairsIffAllFailed ==
    (Terminal /\ Len(commits) >= 2)
    => /\ (raised = NoPairsAnalyzed)
             <=> (\A k \in DOMAIN outcomes : ~IsValidVerdict(outcomes[k]))
       /\ (\E k \in DOMAIN outcomes : IsValidVerdict(outcomes[k]))
             => (/\ pc = "Done"
                 /\ response.status = 200
                 /\ response.success
                 /\ response.commits_analyzed >= 1)

C3_Witness ==
    /\ pc = "Error"
    /\ raised = NoPairsAnalyzed
    /\ outcomes = <<NonZeroExit, SuccessFalse, MissingMode>>

\* C4: for every successfully analyzed pair at position i,
\* 0 <= selected_tests <= total_tests(i) and 0 <= smart_time <= baseline_time(i).
C4_MetricsBounded ==
    \A k \in DOMAIN metrics :
        metrics[k].contributes
        => /\ 0 <= metrics[k].selected
           /\ metrics[k].selected <= 1000 + 50 * (k - 1)
           /\ 0 <= metrics[k].smart_time
           /\ metrics[k].smart_time <= 1200 + 30 * (k - 1)

\* the outcome the run has by itself, whatever the removal of the workspace did
OwnOutcome ==
    IF raised.type = "TimeoutExpired" THEN 408
    ELSE IF raised.type = "none" THEN 200
    ELSE 500

C6_TimeoutOutcomes ==
    /\ (pc = "Error" /\ raised.type = "TimeoutExpired")
          => /\ errorFrom \in {"Cloning", "Walking"}
             /\ outcomes = <<>>
             /\ response.status = 408
             /\ response.detail = <<"Analysis timed out">>
    /\ \A k \in DOMAIN outcomes :
          outcomes[k].kind = "timeout"
          => /\ i >= k
             /\ ~metrics[k].contributes
             /\ errorFrom # "AnalyzingPairs"
             /\ response.status # 408

C6_Witness ==
    /\ pc = "Error"
    /\ errorFrom = "Walking"
    /\ raised.type = "TimeoutExpired"
    /\ response.status = 408

\* C7: for a retrieved history c[0..n-1], newest first, with n >= 2, the
\* pairs handed to the analyzer are exactly (head = c[k], base = c[k+1]) for
\* k = 0..min(n-1, 20)-1, in that order; pairs beyond the 20th are dropped.
C7_AdjacentPairsNewestFirst ==
    /\ Len(commits) < 2 => submitted = <<>>
    /\ Len(commits) >= 2
          => /\ Len(submitted) <= Min(Len(commits) - 1, 20)
             /\ Len(submitted) = i
             /\ \A k \in DOMAIN submitted :
                   /\ submitted[k] = [head |-> commits[k], base |-> commits[k + 1]]
                   /\ submitted[k].head = history - (k - 1)
                   /\ submitted[k].base = submitted[k].head - 1
             /\ (pc \in {"Aggregating", "Projecting", "Done"}
                 \/ (pc = "Error" /\ errorFrom = "Aggregating"))
                   => Len(submitted) = Min(Len(commits) - 1, 20)

C7_Witness ==
    /\ pc = "Done"
    /\ Len(commits) = 30
    /\ Len(submitted) = 20
    /\ submitted[20] = [head |-> history - 19, base |-> history - 20]

\* C8: for a verdict with success == true at position i, no_changes selects
\* 0 tests, full_run and any unrecognized mode select total_tests(i) =
\* 1000 + 50*i without failing the pair, and smart_selection with f changed
\* functions selects max(50, 15*f), so 50 and never 0 for f = 0.
C8_SelectionPolicy ==
    \A k \in DOMAIN outcomes :
        IsValidVerdict(outcomes[k])
        => /\ Len(metrics) >= k
           /\ metrics[k].contributes
           /\ metrics[k].total_test_count = 1000 + 50 * (k - 1)
           /\ outcomes[k].analysis_mode = "no_changes"
                 => metrics[k].selected = 0
           /\ outcomes[k].analysis_mode \notin {"no_changes", "smart_selection"}
                 => metrics[k].selected = 1000 + 50 * (k - 1)
           /\ outcomes[k].analysis_mode = "smart_selection"
                 => /\ metrics[k].selected
                          = (IF 15 * outcomes[k].changed_functions >= 50
                             THEN 15 * outcomes[k].changed_functions ELSE 50)
                    /\ outcomes[k].changed_functions = 0
                          => metrics[k].selected = 50

C8_Witness ==
    /\ outcomes = <<Smart(0), Unrecognized, Smart(4)>>
    /\ metrics[1].selected = 50
    /\ metrics[2].selected = 1050
    /\ metrics[3].selected = 60

\* C9: in every success result, with n = commits_analyzed,
\* avg_current = sum(baseline) div n and avg_smart = sum(smart) div n, the
\* reported savings_percent is floor(100 * (avg_current - avg_smart) / avg_current).
C9_SavingsPercentIsFloor ==
    pc = "Done"
    => LET n   == response.commits_analyzed
           cur == total_current_time \div n
           sm  == total_smart_time \div n
       IN  /\ response.current_time = cur
           /\ response.smart_time = sm
           /\ response.savings_percent = (100 * (cur - sm)) \div cur

\* C10: a history of exactly 2 commits whose only pair reports no_changes
\* succeeds with commits_analyzed = 1, avg_smart = 0 and savings_percent = 100;
\* whenever every successfully analyzed pair reports no_changes, avg_smart = 0
\* and savings_percent = 100.
C10_NoChangesSavesAll ==
    /\ (Terminal /\ Len(commits) = 2 /\ outcomes = <<NoChanges>>)
          => /\ pc = "Done"
             /\ response.status = 200
             /\ response.commits_analyzed = 1
             /\ response.smart_time = 0
             /\ response.savings_percent = 100
    /\ (/\ pc = "Done"
        /\ \A k \in DOMAIN outcomes :
              IsValidVerdict(outcomes[k]) => outcomes[k].analysis_mode = "no_changes")
          => (response.smart_time = 0 /\ response.savings_percent = 100)

C10_Witness ==
    /\ pc = "Done"
    /\ Len(commits) = 2
    /\ outcomes = <<NoChanges>>
    /\ response.savings_percent = 100

\* C11: a history of 21 commits whose pairs all report full_run succeeds
\* with commits_analyzed = 20, avg_smart = avg_current and savings_percent = 0;
\* whenever every successfully analyzed pair reports full_run,
\* avg_smart = avg_current and savings_percent = 0.
C11_FullRunSavesNothing ==
    /\ (/\ Terminal
        /\ Len(commits) = 21
        /\ outcomes # <<>>
        /\ \A k \in DOMAIN outcomes : outcomes[k] = FullRun)
          => /\ pc = "Done"
             /\ response.status = 200
             /\ response.commits_analyzed = 20
             /\ response.smart_time = response.current_time
             /\ response.savings_percent = 0
    /\ (/\ pc = "Done"
        /\ \A k \in DOMAIN outcomes :
              IsValidVerdict(outcomes[k]) => outcomes[k].analysis_mode = "full_run")
          => /\ response.smart_time = response.current_time
             /\ response.savings_percent = 0

C11_Witness ==
    /\ pc = "Done"
    /\ Len(commits) = 21
    /\ outcomes[20] = FullRun
    /\ response.commits_analyzed = 20
    /\ response.current_time = 1485

\* (gap / 60 * 10 * 100 * 20 / 60) * (150000 / (52 * 40)) = gap * 15625 / 39,
\* rounded down
ExactMonthlySavings(gap) == (gap * 15625) \div 39

\* C12: in every success result the monthly savings are
\* floor(((avg_current - avg_smart) / 60 * 10 * 100 * 20 / 60) * (150000 / (52*40)))
\* evaluated exactly; avg_current = 1200 and avg_smart = 0 give 480769.
C12_MonthlySavingsExact ==
    pc = "Done"
    => /\ response.monthly_savings
             = Money(ExactMonthlySavings(response.current_time - response.smart_time))
       /\ (response.current_time = 1200 /\ response.smart_time = 0)
             => response.monthly_savings = "$480,769"

\* C13: a request whose repo_url is empty or lacks the host marker is
\* rejected with the InvalidInput client error while still in Idle: no
\* workspace is created, no clone, log or analyzer invocation happens and no
\* temporary directory remains.
C13_InvalidUrlRejectedInIdle ==
    (repo_url = <<>> \/ \A k \in DOMAIN repo_url : repo_url[k] # "github.com")
    => /\ pc \in {"Idle", "Error"}
       /\ workspace = "none"
       /\ cleanups = 0
       /\ commits = <<>>
       /\ submitted = <<>>
       /\ pc = "Error"
             => /\ errorFrom = "Idle"
                /\ response = [status |-> 400, detail |-> <<"Invalid GitHub URL">>]

C13_Witness ==
    /\ pc = "Error"
    /\ repo_url = <<"https:", "", "gitlab.com", "owner", "repo.git">>
    /\ response.status = 400
    /\ workspace = "none"

\* positions of the pairs analyzed successfully so far, counted from 0
AnalyzedPositions == {k - 1 : k \in {j \in DOMAIN outcomes : IsValidVerdict(outcomes[j])}}

RECURSIVE SumOver(_, _)
SumOver(S, f) ==
    IF S = {} THEN 0
    ELSE LET k == CHOOSE j \in S : TRUE
         IN  f[k] + SumOver(S \ {k}, f)

\* C16: with S the set of positions analyzed successfully so far,
\* analyzed = |S|, total_current_time = sum over S of 1200 + 30j,
\* total_tests = sum over S of 1000 + 50j, and total_smart_time and
\* total_selected are the sums of the smart_time and selected values of the
\* positions in S; a skipped position leaves the accumulators unchanged but
\* consumes its index; a success result has
\* 1 <= commits_analyzed <= min(n - 1, 20).
C16_AccumulatorsOverAnalyzed ==
    LET S == AnalyzedPositions
        P == 0 .. (Len(outcomes) - 1)
    IN  /\ Len(metrics) = Len(outcomes)
        /\ i = Len(outcomes)
        /\ analyzed = Cardinality(S)
        /\ total_current_time = SumOver(S, [j \in P |-> 1200 + (30 * j)])
        /\ total_tests = SumOver(S, [j \in P |-> 1000 + (50 * j)])
        /\ total_smart_time = SumOver(S, [j \in P |-> metrics[j + 1].smart_time])
        /\ total_selected = SumOver(S, [j \in P |-> metrics[j + 1].selected])
        /\ \A j \in P \ S : metrics[j + 1] = NoMetrics
        /\ pc = "Done"
              => /\ response.commits_analyzed = Cardinality(S)
                 /\ 1 <= response.commits_analyzed
                 /\ response.commits_analyzed <= Min(Len(commits) - 1, 20)

C16_Witness ==
    /\ pc = "Done"
    /\ Len(outcomes) = 3
    /\ AnalyzedPositions = {1, 2}
    /\ total_current_time = 2490
    /\ total_tests = 2150
    /\ response.commits_analyzed = 2

\* C17: whenever the savings are computed, avg_current >= 1200, so the
\* division by avg_current is never by zero; the averages are divided by
\* analyzed only when analyzed >= 1.
C17_NoDivisionByZero ==
    /\ pc \in {"Projecting", "Done"}
          => /\ analyzed >= 1
             /\ avg_current = total_current_time \div analyzed
             /\ avg_current >= 1200
    /\ (pc = "Error" /\ errorFrom = "Aggregating")
          => /\ analyzed = 0
             /\ avg_current = 0
             /\ savings_pct = 0

C17_Witness ==
    /\ pc = "Projecting"
    /\ analyzed = 1
    /\ avg_current = 1230
    /\ savings_pct = 100

\* C19: in every success result smart_time <= current_time,
\* savings_percent is in 0..100, tests_avg_selected <= tests_total and the
\* monthly savings are non-negative.
C19_ResultWithinRange ==
    pc = "Done"
    => /\ response.smart_time <= response.current_time
       /\ response.savings_percent \in 0 .. 100
       /\ response.tests_avg_selected <= response.tests_total
       /\ dollar_savings(response.current_time, response.smart_time) >= 0
       /\ response.monthly_savings
             = Money(dollar_savings(response.current_time, response.smart_time))

\* the analyzer is invoked in this step
Invokes == submitted' # submitted

\* C18: the analyzer is invoked for one pair at a time, in increasing
\* position order, at most once for each position, and never before both the
\* clone and the log listing have succeeded.
C18_AnalyzerSequential ==
    /\ [](pc \in {"Idle", "Cloning", "Walking"} => submitted = <<>>)
    /\ [][Invokes =>
            /\ pc = "AnalyzingPairs"
            /\ workspace = "exists"
            /\ Len(commits) >= 2
            /\ Len(submitted) = i
            /\ submitted' = Append(submitted,
                               [head |-> commits[i + 1], base |-> commits[i + 2]])
            /\ \A k \in DOMAIN submitted :
                  submitted[k] = [head |-> commits[k], base |-> commits[k + 1]]
            /\ i' \in {i, i + 1}
            /\ (i' = i) => pc' = "Error"]_vars

C18_Witness ==
    /\ pc = "Done"
    /\ Len(submitted) = 3
    /\ submitted[3] = [head |-> commits[3], base |-> commits[4]]
    /\ i = 3

\* the orders in which the positions of S can be visited
Orders(S) ==
    {o \in [1 .. Cardinality(S) -> S] :
        \A a, b \in 1 .. Cardinality(S) : a # b => o[a] # o[b]}

\* f added up over the first n positions of the order o
RECURSIVE AddUp(_, _, _)
AddUp(o, f, n) == IF n = 0 THEN 0 ELSE AddUp(o, f, n - 1) + f[o[n]]

\* C14: the aggregate result depends on the positions of the verdicts, not
\* only on their multiset: the pairs [no_changes, full_run] and
\* [full_run, no_changes] give different results; for a fixed assignment of
\* verdicts to positions the sums are the same in whatever order the
\* per-pair metrics are added.
C14_PairOrderMatters ==
    /\ (pc = "Done" /\ outcomes = <<NoChanges, FullRun>>)
          => /\ response.smart_time = 615
             /\ response.tests_avg_selected = 525
             /\ response.savings_percent = 49
    /\ (pc = "Done" /\ outcomes = <<FullRun, NoChanges>>)
          => /\ response.smart_time = 600
             /\ response.tests_avg_selected = 500
             /\ response.savings_percent = 50
    /\ \A o \in Orders(AnalyzedPositions) :
          LET n == Cardinality(AnalyzedPositions)
              P == 0 .. (Len(metrics) - 1)
          IN  /\ total_current_time = AddUp(o, [j \in P |-> metrics[j + 1].base_time], n)
              /\ total_smart_time = AddUp(o, [j \in P |-> metrics[j + 1].smart_time], n)
              /\ total_tests = AddUp(o, [j \in P |-> metrics[j + 1].total_test_count], n)
              /\ total_selected = AddUp(o, [j \in P |-> metrics[j + 1].selected], n)

C14_Witness ==
    /\ pc = "Done"
    /\ outcomes = <<NoChanges, FullRun>>
    /\ response.current_time = 1215
    /\ response.smart_time = 615
    /\ Cardinality(Orders(AnalyzedPositions)) = 2

\* the loop over the pairs, run from position pos over the answers outs
RECURSIVE Loop(_, _, _)
Loop(outs, pos, acc) ==
    IF pos >= Len(outs) THEN acc
    ELSE LET body == PairBody(outs[pos + 1], pos)
             esc  == PairEscapes(body.exc)
             m    == IF body.exc.type = "none" THEN body.m ELSE NoMetrics
         IN  IF esc.type # "none" THEN [acc EXCEPT !.exc = esc]
             ELSE Loop(outs, pos + 1,
                       [exc |-> NoException,
                        total_current_time |-> acc.total_current_time + m.base_time,
                        total_smart_time |-> acc.total_smart_time + m.smart_time,
                        total_tests |-> acc.total_tests + m.total_test_count,
                        total_selected |-> acc.total_selected + m.selected,
                        analyzed |-> acc.analyzed + (IF m.contributes THEN 1 ELSE 0)])

\* what a request answers when it is the only one on the server and git and
\* smart_ci.py give it the answers recorded in req
Alone(req) ==
    LET removable == req.workspace # "leftover"
        Answer(e) == ErrorResponse(Leaves(OuterHandler(e), Cleanup(removable).exc))
        sums == Loop(req.outcomes, 0,
                     [exc |-> NoException, total_current_time |-> 0,
                      total_smart_time |-> 0, total_tests |-> 0,
                      total_selected |-> 0, analyzed |-> 0])
        cur == sums.total_current_time \div sums.analyzed
        smart == sums.total_smart_time \div sums.analyzed
    IN  IF req.repo_url = <<>> \/ ~HasHostMarker(req.repo_url)
        THEN ErrorResponse(HTTPException(400, <<"Invalid GitHub URL">>))
        ELSE IF Len(Parts(req.repo_url)) < 2
        THEN ErrorResponse(Raise("IndexError"))
        ELSE IF req.clone = "timeout" THEN Answer(Raise("TimeoutExpired"))
        ELSE IF req.clone = "failed"
        THEN Answer(HTTPException(400, <<"Failed to clone repository">>))
        ELSE IF req.log = "timeout" THEN Answer(Raise("TimeoutExpired"))
        ELSE IF Len(GitLog(req.history)) < 2
        THEN Answer(HTTPException(400, <<"Repository must have at least 2 commits">>))
        ELSE IF sums.exc.type # "none" THEN Answer(sums.exc)
        ELSE IF sums.analyzed = 0
        THEN Answer(HTTPException(400, <<"No commits could be analyzed">>))
        ELSE [status |-> 200,
              detail |-> <<>>,
              success |-> TRUE,
              repo_name |-> RepoName(Parts(req.repo_url)[Len(Parts(req.repo_url))]),
              current_time |-> cur,
              smart_time |-> smart,
              savings_percent |-> SavingsPct(cur, smart),
              commits_analyzed |-> sums.analyzed,
              tests_total |-> sums.total_tests \div sums.analyzed,
              tests_avg_selected |-> sums.total_selected \div sums.analyzed,
              monthly_savings |-> Money(dollar_savings(cur, smart))]

InFlight(req) == req.pc \notin {"Idle", "Done", "Error"}

\* C15: in any interleaving of concurrent analyze requests every request
\* has its own workspace and its own accumulators: no step of one request,
\* its cleanup included, changes the workspace, the accumulators or the
\* result of another, and every request answers what it would answer alone.
C15_RequestsIsolated ==
    /\ [](\A r \in DOMAIN requests :
            /\ InFlight(requests[r])
                  => /\ requests[r].temp_dir \in tmp
                     /\ \A q \in DOMAIN requests \ {r} :
                           InFlight(requests[q])
                           => requests[q].temp_dir # requests[r].temp_dir
            /\ requests[r].pc \in {"Done", "Error"}
                  => requests[r].response = Alone(requests[r]))
    /\ [][\E r \in DOMAIN requests :
            \A q \in DOMAIN requests \ {r} :
               /\ requests'[q] = requests[q]
               /\ (InFlight(requests[q]) /\ requests[q].temp_dir \in tmp)
                     => requests[q].temp_dir \in tmp']_vars

C15_Witness ==
    /\ requests[1].pc = "Done"
    /\ requests[1].workspace = "removed"
    /\ requests[1].response.smart_time = 0
    /\ requests[2].pc = "Aggregating"
    /\ requests[2].total_smart_time = 1200
    /\ requests[2].temp_dir \in tmp
    /\ requests[2].temp_dir # requests[1].temp_dir

====
